---- MODULE Spec2Model ----
(***************************************************************************)
(* Preflight of the trading bot: config.py (TradingConfig, validate_config),*)
(* test_setup.py (the five-stage check pipeline), setup.py (the setup entry *)
(* point with its own connection test) and simple_test.py (plain HTTP       *)
(* reachability).  One run executes one of the four scripts against an      *)
(* environment drawn in Init.                                               *)
(***************************************************************************)
EXTENDS Integers, Sequences, FiniteSets, TLC

VARIABLES
    prog,       \* the script being run
    pc,         \* position of the script's single thread of control
    env,        \* the environment variables read by config.py
    missing,    \* packages that cannot be imported in this interpreter
    dirs,       \* directories that exist under the working directory
    dbExists,   \* whether the target database exists on the server
    results,    \* main.results of test_setup.py: sequence of (name, passed)
    exResults,  \* test_exchange_connections.results: one bool per probe
    exFault,    \* the outer except of test_exchange_connections was taken
    cur,        \* the exchange whose block of the connection test is running
    calls,      \* log of client / database operations attempted so far
    clients,    \* exchanges whose SDK client is constructed and not closed
    dbOpen,     \* database connections opened and not closed
    errors,     \* validate_config.errors
    stdout,     \* lines printed / logged: validate_config, probe outcomes
    verdict,    \* <<return value of test_setup.main>>, <<>> until it returns
    fault,      \* origin of the uncaught exception / sys.exit, or "none"
    exitCode,   \* <<process exit status>>, <<>> while running
    returns,    \* setup.py: <<value>> returned by create_database, test_connections
    rateLimit,  \* per exchange: <<"rateLimit" handed to the SDK client>>, or <<>>
    history     \* setup.py: what create_database returned in earlier runs

vars == <<prog, pc, env, missing, dirs, dbExists, results, exResults, exFault,
          cur, calls, clients, dbOpen, errors, stdout, verdict, fault, exitCode,
          returns, rateLimit, history>>

----------------------------------------------------------------------------
(* Inputs *)

Programs == {"config", "test_setup", "setup", "simple_test"}

Exchanges == {"coinbase", "kraken"}

\* Values an API key / secret environment variable takes: unset or set.
CredentialValues == {"", "k"}

\* TRADING_MODE values: the two legal ones, casing variants and the empty one.
TradingModeValues == {"paper", "live", "Live", "PAPER", ""}

EnvironmentValues == {"development", "production"}

\* ACTIVE_EXCHANGES after split(","): any selection of the known exchanges.
ActiveExchangeChoices == SUBSET Exchanges

\* Packages whose absence the runs distinguish: the exchange SDK, a package
\* imported at the top of test_setup.py, and one that only test_imports loads.
\* What config.py itself imports (dotenv, pydantic) is taken as installed.
MissingCandidates == {"ccxt", "colorlog", "redis"}

required_packages ==
    <<"ccxt", "pandas", "numpy", "psycopg2", "redis", "dotenv", "colorlog",
      "websockets", "aiohttp">>

required_dirs == {"logs", "data", "backups"}

Outcomes == {"ok", "error"}

\* How a network request ends: a response, an exception, or the client's
\* request timeout expiring (ccxt's RequestTimeout, asyncio.TimeoutError),
\* which is raised to the caller like any other exception.
RequestOutcomes == {"ok", "error", "timeout"}

----------------------------------------------------------------------------
(* config.py *)

\* A validator that compares case-insensitively.
validate_trading_mode_AnyCase(v) == v \in {"paper", "live", "Live", "PAPER"}

\* Lines 77-81.
validate_trading_mode(v) == v \in {"paper", "live"}

validate_environment(v) == v \in {"development", "staging", "production"}

\* config = TradingConfig(): construction succeeds iff both validators pass.
ConfigLoads(e) ==
    validate_trading_mode(e.trading_mode) /\ validate_environment(e.environment)

\* Messages are modelled as their sequences of words.
CoinbaseError ==
    <<"Coinbase", "API", "credentials", "are", "required", "but", "not", "set">>

KrakenError ==
    <<"Kraken", "API", "credentials", "are", "required", "but", "not", "set">>

LiveDevWarning ==
    <<"WARNING:", "Running", "in", "LIVE", "mode", "with", "development",
      "environment!">>

\* Python's  w in e  on a message.
Contains(e, w) == \E i \in DOMAIN e : e[i] = w

\* Python's  not s  on a string.
Empty(s) == s = ""

validate_config_errors_AndCreds(e) ==
    LET e1 == IF "coinbase" \in e.active_exchanges
                 /\ (Empty(e.coinbase_api_key) /\ Empty(e.coinbase_api_secret))
              THEN <<CoinbaseError>> ELSE <<>>
        e2 == IF "kraken" \in e.active_exchanges
                 /\ (Empty(e.kraken_api_key) /\ Empty(e.kraken_private_key))
              THEN e1 \o <<KrakenError>> ELSE e1
    IN  IF e.trading_mode = "live" /\ e.environment = "development"
        THEN e2 \o <<LiveDevWarning>> ELSE e2

\* validate_config, lines 129-140: the errors list it builds.
validate_config_errors(e) ==
    LET e1 == IF "coinbase" \in e.active_exchanges
                 /\ (Empty(e.coinbase_api_key) \/ Empty(e.coinbase_api_secret))
              THEN <<CoinbaseError>> ELSE <<>>
        e2 == IF "kraken" \in e.active_exchanges
                 /\ (Empty(e.kraken_api_key) \/ Empty(e.kraken_private_key))
              THEN e1 \o <<KrakenError>> ELSE e1
    IN  IF e.trading_mode = "live" /\ e.environment = "development"
        THEN e2 \o <<LiveDevWarning>> ELSE e2

validate_config_raises_OnAny(errs) == errs # <<>>

\* validate_config, lines 142-145: whether it raises ValueError.
validate_config_raises(errs) ==
    errs # <<>> /\ \E i \in DOMAIN errs : Contains(errs[i], "required")

\* TradingConfig, lines 74-75: requests per second.
coinbase_rate_limit_per_second == 10
kraken_rate_limit_per_second == 6

rate_limit_per_second(ex) ==
    IF ex = "coinbase" THEN coinbase_rate_limit_per_second
    ELSE kraken_rate_limit_per_second

\* ExchangeConfig.get_coinbase_config / get_kraken_config, lines 106 and 118:
\* the "rateLimit" entry of the connection parameters, commented "ms".
get_config_rateLimit(ex) == rate_limit_per_second(ex) * 1000

----------------------------------------------------------------------------
(* Initial state *)

EnvChoices ==
    [coinbase_api_key : CredentialValues,
     coinbase_api_secret : CredentialValues,
     kraken_api_key : CredentialValues,
     kraken_private_key : CredentialValues,
     trading_mode : TradingModeValues,
     environment : EnvironmentValues,
     active_exchanges : ActiveExchangeChoices]

Init ==
    /\ prog \in Programs
    /\ pc = "start"
    /\ env \in EnvChoices
    /\ missing \in SUBSET MissingCandidates
    /\ dirs \in {{}, required_dirs}
    /\ dbExists \in BOOLEAN
    /\ results = <<>>
    /\ exResults = <<>>
    /\ exFault = FALSE
    /\ cur = "none"
    /\ calls = <<>>
    /\ clients = {}
    /\ dbOpen = 0
    /\ errors = <<>>
    /\ stdout = <<>>
    /\ verdict = <<>>
    /\ fault = "none"
    /\ exitCode = <<>>
    /\ returns = [create_database |-> <<>>, test_connections |-> <<>>]
    /\ rateLimit = [ex \in Exchanges |-> <<>>]
    /\ history = <<>>
    \* What a script never reads is left at one value.
    /\ prog \in {"config", "simple_test"} => missing = {} /\ dirs = {}
    /\ prog # "setup" => ~dbExists

----------------------------------------------------------------------------
(* Process termination *)

\* An uncaught exception or sys.exit(1) raised at `where`: exit status 1.
Crash(where) ==
    /\ pc' = "crashed"
    /\ fault' = where
    /\ exitCode' = <<1>>

Terminated == pc \in {"done", "crashed"}

----------------------------------------------------------------------------
(* config.py run as a script, lines 122-124 and 148-154 *)

ConfigModuleLoad ==
    /\ prog = "config" /\ pc = "start"
    /\ IF ConfigLoads(env)
       THEN pc' = "validate_config" /\ UNCHANGED <<fault, exitCode>>
       ELSE Crash("TradingConfig")
    /\ UNCHANGED <<prog, history, rateLimit, returns, env, missing, dirs,
                   dbExists, results, exResults,
                   exFault, cur, calls, clients, dbOpen, errors, stdout, verdict>>

ConfigMainValidate ==
    /\ prog = "config" /\ pc = "validate_config"
    /\ errors' = validate_config_errors(env)
    /\ stdout' = errors'
    /\ IF validate_config_raises(errors')
       THEN Crash("validate_config")
       ELSE pc' = "done" /\ exitCode' = <<0>> /\ UNCHANGED fault
    /\ UNCHANGED <<prog, history, rateLimit, returns, env, missing, dirs,
                   dbExists, results, exResults,
                   exFault, cur, calls, clients, dbOpen, verdict>>

----------------------------------------------------------------------------
(* test_setup.py: the check pipeline *)

\* One attempted operation: on whom, which, and how it ended.
Call(ex, op, out) == [ex |-> ex, op |-> op, out |-> out]

api_key(e, ex) ==
    IF ex = "coinbase" THEN e.coinbase_api_key ELSE e.kraken_api_key

api_secret(e, ex) ==
    IF ex = "coinbase" THEN e.coinbase_api_secret ELSE e.kraken_private_key

Record_Prepend(name, r) ==
    results' = <<[name |-> name, passed |-> r]>> \o results

\* results.append((name, <stage>())), lines 247-251.
Record(name, r) ==
    results' = Append(results, [name |-> name, passed |-> r])

\* test_imports, lines 58-67, given the packages that raise ImportError.
test_imports(m) ==
    LET failed == SelectSeq(required_packages, LAMBDA p : p \in m)
    IN  Len(failed) = 0

\* Module top level, lines 6-39: colorlog and psycopg2 are imported before
\* main exists; an ImportError there ends the script.
TestSetupModuleLoad ==
    /\ prog = "test_setup" /\ pc = "start"
    /\ IF {"colorlog", "psycopg2"} \cap missing # {}
       THEN Crash("module_load")
       ELSE pc' = "test_imports" /\ UNCHANGED <<fault, exitCode>>
    /\ UNCHANGED <<prog, history, rateLimit, returns, env, missing, dirs,
                   dbExists, results, exResults,
                   exFault, cur, calls, clients, dbOpen, errors, stdout, verdict>>

\* Stage 1.  Only ImportError is caught (line 63): a package whose import
\* raises anything else ends main.
TestImports ==
    /\ prog = "test_setup" /\ pc = "test_imports"
    /\ \E otherError \in BOOLEAN :
          IF otherError
          THEN Crash("test_imports") /\ UNCHANGED results
          ELSE /\ Record("Package Imports", test_imports(missing))
               /\ pc' = "test_environment"
               /\ UNCHANGED <<fault, exitCode>>
    /\ UNCHANGED <<prog, history, rateLimit, returns, env, missing, dirs,
                   dbExists, exResults, exFault,
                   cur, calls, clients, dbOpen, errors, stdout, verdict>>

\* Stage 2, lines 74-105: passes iff  from config import config  succeeds.
TestEnvironment ==
    /\ prog = "test_setup" /\ pc = "test_environment"
    /\ Record("Environment Config", ConfigLoads(env))
    /\ pc' = "test_directories"
    /\ UNCHANGED <<prog, history, rateLimit, returns, env, missing, dirs,
                   dbExists, exResults, exFault,
                   cur, calls, clients, dbOpen, errors, stdout, verdict,
                   fault, exitCode>>

\* Stage 3, lines 225-235: no handler around mkdir; it returns True or raises.
TestDirectories ==
    /\ prog = "test_setup" /\ pc = "test_directories"
    /\ \E mkdirOk \in BOOLEAN :
          IF required_dirs \subseteq dirs \/ mkdirOk
          THEN /\ dirs' = required_dirs
               /\ Record("Directories", TRUE)
               /\ pc' = "test_database"
               /\ UNCHANGED <<fault, exitCode>>
          ELSE Crash("test_directories") /\ UNCHANGED <<dirs, results>>
    /\ UNCHANGED <<prog, history, rateLimit, returns, env, missing, dbExists,
                   exResults, exFault,
                   cur, calls, clients, dbOpen, errors, stdout, verdict>>

\* Stage 4, lines 112-118 and 145-151: import config, connect.
TestDatabaseConnect ==
    /\ prog = "test_setup" /\ pc = "test_database"
    /\ IF ~ConfigLoads(env)
       THEN /\ Record("Database", FALSE)
            /\ pc' = "test_exchange_connections"
            /\ UNCHANGED <<calls, dbOpen>>
       ELSE \E out \in Outcomes :
               /\ calls' = Append(calls, Call("db", "connect", out))
               /\ IF out = "ok"
                  THEN /\ dbOpen' = dbOpen + 1
                       /\ pc' = "db_version"
                       /\ UNCHANGED results
                  ELSE /\ Record("Database", FALSE)
                       /\ pc' = "test_exchange_connections"
                       /\ UNCHANGED dbOpen
    /\ UNCHANGED <<prog, history, rateLimit, returns, env, missing, dirs,
                   dbExists, exResults, exFault,
                   cur, clients, errors, stdout, verdict, fault, exitCode>>

\* Lines 121-123: SELECT version().  The handler at 145 closes nothing.
TestDatabaseVersion ==
    /\ prog = "test_setup" /\ pc = "db_version"
    /\ \E out \in Outcomes :
          /\ calls' = Append(calls, Call("db", "execute", out))
          /\ IF out = "ok"
             THEN pc' = "db_tables" /\ UNCHANGED results
             ELSE Record("Database", FALSE) /\ pc' = "test_exchange_connections"
    /\ UNCHANGED <<prog, history, rateLimit, returns, env, missing, dirs,
                   dbExists, exResults, exFault,
                   cur, clients, dbOpen, errors, stdout, verdict, fault,
                   exitCode>>

\* Lines 126-139: the table listing (an empty listing is only a warning).
TestDatabaseTables ==
    /\ prog = "test_setup" /\ pc = "db_tables"
    /\ \E out \in Outcomes :
          /\ calls' = Append(calls, Call("db", "execute", out))
          /\ IF out = "ok"
             THEN pc' = "db_close" /\ UNCHANGED results
             ELSE Record("Database", FALSE) /\ pc' = "test_exchange_connections"
    /\ UNCHANGED <<prog, history, rateLimit, returns, env, missing, dirs,
                   dbExists, exResults, exFault,
                   cur, clients, dbOpen, errors, stdout, verdict, fault,
                   exitCode>>

\* Lines 141-143: cursor.close(); conn.close(); return True.
TestDatabaseClose ==
    /\ prog = "test_setup" /\ pc = "db_close"
    /\ \E out \in Outcomes :
          /\ calls' = Append(calls, Call("db", "close", out))
          /\ IF out = "ok"
             THEN dbOpen' = dbOpen - 1 /\ Record("Database", TRUE)
             ELSE UNCHANGED dbOpen /\ Record("Database", FALSE)
    /\ pc' = "test_exchange_connections"
    /\ UNCHANGED <<prog, history, rateLimit, returns, env, missing, dirs,
                   dbExists, exResults, exFault,
                   cur, clients, errors, stdout, verdict, fault, exitCode>>

\* The exchange blocks of the connection tests, in source order.
NextExchange(ex) == IF ex = "coinbase" THEN "kraken" ELSE "none"

\* Lines 165-166 and 190-191: the block runs for an active exchange whose
\* API key is non-empty; the secret is not looked at.
ShouldProbe(e, ex) == ex \in e.active_exchanges /\ ~Empty(api_key(e, ex))

all_results_Any(rs) == \E i \in DOMAIN rs : rs[i]

\* Line 214:  all(results) if results else True.
all_results(rs) == IF rs # <<>> THEN \A i \in DOMAIN rs : rs[i] ELSE TRUE

\* Outer handler, lines 216-218: log and return False.
ExchangeStageFault ==
    /\ exFault' = TRUE
    /\ Record("Exchange APIs", FALSE)
    /\ pc' = "summary"

\* Stage 5 entry, lines 158-162: the SDK and config imports.
ExchangeStageStart ==
    /\ prog = "test_setup" /\ pc = "test_exchange_connections"
    /\ IF "ccxt" \in missing \/ ~ConfigLoads(env)
       THEN ExchangeStageFault /\ UNCHANGED <<exResults, cur>>
       ELSE /\ exResults' = <<>>
            /\ cur' = "coinbase"
            /\ pc' = "probe_gate"
            /\ UNCHANGED <<results, exFault>>
    /\ UNCHANGED <<prog, history, rateLimit, returns, env, missing, dirs,
                   dbExists, calls, clients, dbOpen,
                   errors, stdout, verdict, fault, exitCode>>

\* Leaving an exchange's block: on to the next block or to the return.
LeaveBlock ==
    IF NextExchange(cur) = "none"
    THEN pc' = "exchanges_return" /\ cur' = "none"
    ELSE pc' = "probe_gate" /\ cur' = NextExchange(cur)

\* Lines 165-168 / 190-193: skip the exchange, or construct its client.
\* The constructor runs outside the inner try.
ProbeGate ==
    /\ prog = "test_setup" /\ pc = "probe_gate"
    /\ IF ShouldProbe(env, cur)
       THEN \E out \in Outcomes :
               /\ calls' = Append(calls, Call(cur, "construct", out))
               /\ rateLimit' = [rateLimit EXCEPT
                                  ![cur] = <<get_config_rateLimit(cur)>>]
               /\ IF out = "ok"
                  THEN /\ clients' = clients \cup {cur}
                       /\ pc' = "probe_ticker"
                       /\ UNCHANGED <<results, exFault, cur>>
                  ELSE ExchangeStageFault /\ UNCHANGED <<clients, cur>>
       ELSE /\ LeaveBlock
            /\ UNCHANGED <<calls, clients, results, exFault, rateLimit>>
    /\ UNCHANGED <<prog, history, returns, env, missing, dirs, dbExists,
                   exResults, dbOpen,
                   errors, stdout, verdict, fault, exitCode>>

\* Lines 181-182 / 206-207: logger.error(f"<Exchange> API error: {e}"); the
\* text of the exception is modelled by the kind of failure.
ApiErrorLine(ex, out) ==
    <<IF ex = "coinbase" THEN "Coinbase" ELSE "Kraken", "API", "error:", out>>

\* A probe without the handler of lines 181-182 / 206-207 for a timeout.
ProbeTicker_TimeoutUncaught ==
    /\ prog = "test_setup" /\ pc = "probe_ticker"
    /\ \E out \in RequestOutcomes :
          /\ calls' = Append(calls, Call(cur, "fetch_ticker", out))
          /\ IF out = "timeout"
             THEN Crash("fetch_ticker") /\ UNCHANGED exResults
             ELSE /\ pc' = "probe_close"
                  /\ exResults' = Append(exResults, out = "ok")
                  /\ UNCHANGED <<fault, exitCode>>
    /\ UNCHANGED <<prog, history, rateLimit, returns, env, missing, dirs,
                   dbExists, results, exFault, cur,
                   clients, dbOpen, errors, stdout, verdict>>

\* Lines 170-183 / 195-208: the public endpoint.  In paper mode a success
\* appends True; any exception appends False.
ProbeTicker ==
    /\ prog = "test_setup" /\ pc = "probe_ticker"
    /\ \E out \in RequestOutcomes :
          /\ calls' = Append(calls, Call(cur, "fetch_ticker", out))
          /\ IF out = "ok"
             THEN /\ UNCHANGED stdout
                  /\ IF env.trading_mode = "live"
                     THEN pc' = "probe_balance" /\ UNCHANGED exResults
                     ELSE /\ pc' = "probe_close"
                          /\ exResults' = Append(exResults, TRUE)
             ELSE /\ pc' = "probe_close"
                  /\ exResults' = Append(exResults, FALSE)
                  /\ stdout' = Append(stdout, ApiErrorLine(cur, out))
    /\ UNCHANGED <<prog, history, rateLimit, returns, env, missing, dirs,
                   dbExists, results, exFault, cur,
                   clients, dbOpen, errors, verdict, fault, exitCode>>

\* Lines 176-183 / 201-208: the private endpoint, live mode only.
ProbeBalance ==
    /\ prog = "test_setup" /\ pc = "probe_balance"
    /\ \E out \in RequestOutcomes :
          /\ calls' = Append(calls, Call(cur, "fetch_balance", out))
          /\ exResults' = Append(exResults, out = "ok")
          /\ stdout' = IF out = "ok" THEN stdout
                       ELSE Append(stdout, ApiErrorLine(cur, out))
    /\ pc' = "probe_close"
    /\ UNCHANGED <<prog, history, rateLimit, returns, env, missing, dirs,
                   dbExists, results, exFault, cur,
                   clients, dbOpen, errors, verdict, fault, exitCode>>

\* A probe block left without closing its client.
ProbeClose_Skipped ==
    /\ prog = "test_setup" /\ pc = "probe_close"
    /\ LeaveBlock
    /\ UNCHANGED <<prog, history, rateLimit, returns, env, missing, dirs,
                   dbExists, exResults, dbOpen,
                   errors, stdout, verdict, fault, exitCode, calls, clients,
                   results, exFault>>

\* Lines 184-185 / 209-210: finally: await exchange.close().  An exception
\* from close reaches the outer handler.
ProbeClose ==
    /\ prog = "test_setup" /\ pc = "probe_close"
    /\ \E out \in Outcomes :
          /\ calls' = Append(calls, Call(cur, "close", out))
          /\ IF out = "ok"
             THEN /\ clients' = clients \ {cur}
                  /\ LeaveBlock
                  /\ UNCHANGED <<results, exFault>>
             ELSE ExchangeStageFault /\ UNCHANGED <<clients, cur>>
    /\ UNCHANGED <<prog, history, rateLimit, returns, env, missing, dirs,
                   dbExists, exResults, dbOpen,
                   errors, stdout, verdict, fault, exitCode>>

\* Line 214 and line 251.
ExchangeStageReturn ==
    /\ prog = "test_setup" /\ pc = "exchanges_return"
    /\ Record("Exchange APIs", all_results(exResults))
    /\ pc' = "summary"
    /\ UNCHANGED <<prog, history, rateLimit, returns, env, missing, dirs,
                   dbExists, exResults, exFault,
                   cur, calls, clients, dbOpen, errors, stdout, verdict,
                   fault, exitCode>>

summary_verdict_AnyPassed(rs) == \E i \in DOMAIN rs : rs[i].passed

\* Lines 257-271: count the passed results; return passed == len(results).
summary_verdict(rs) ==
    Cardinality({i \in DOMAIN rs : rs[i].passed}) = Len(rs)

MainSummary ==
    /\ prog = "test_setup" /\ pc = "summary"
    /\ verdict' = <<summary_verdict(results)>>
    /\ pc' = "main_returned"
    /\ UNCHANGED <<prog, history, rateLimit, returns, env, missing, dirs,
                   dbExists, results, exResults,
                   exFault, cur, calls, clients, dbOpen, errors, stdout,
                   fault, exitCode>>

\* Lines 274-275: asyncio.run(main()) drops main's return value; the
\* interpreter ends normally.
TestSetupExit ==
    /\ prog = "test_setup" /\ pc = "main_returned"
    /\ exitCode' = <<0>>
    /\ pc' = "done"
    /\ UNCHANGED <<prog, history, rateLimit, returns, env, missing, dirs,
                   dbExists, results, exResults,
                   exFault, cur, calls, clients, dbOpen, errors, stdout,
                   verdict, fault>>

----------------------------------------------------------------------------
(* setup.py: the setup entry point *)

\* sys.exit(1) at a gate of main.
SetupExit(where) == Crash(where)

SetupFrame ==
    UNCHANGED <<prog, history, rateLimit, env, results, exResults, exFault,
                errors, stdout, verdict>>

\* Module top level, lines 6-15: psycopg2 and dotenv are imported before
\* main exists.
SetupModuleLoad ==
    /\ prog = "setup" /\ pc = "start"
    /\ IF {"psycopg2", "dotenv"} \cap missing # {}
       THEN Crash("module_load")
       ELSE pc' = "check_python" /\ UNCHANGED <<fault, exitCode>>
    /\ SetupFrame
    /\ UNCHANGED <<missing, dirs, dbExists, cur, calls, clients, dbOpen, returns>>

\* Lines 139-144.
SetupCheckPython ==
    /\ prog = "setup" /\ pc = "check_python"
    /\ \E versionOk \in BOOLEAN :
          IF versionOk
          THEN pc' = "check_env_file" /\ UNCHANGED <<fault, exitCode>>
          ELSE SetupExit("python_version")
    /\ SetupFrame
    /\ UNCHANGED <<missing, dirs, dbExists, cur, calls, clients, dbOpen, returns>>

\* Lines 146-151.
SetupCheckEnvFile ==
    /\ prog = "setup" /\ pc = "check_env_file"
    /\ \E envFileExists \in BOOLEAN :
          IF envFileExists
          THEN pc' = "check_venv" /\ UNCHANGED <<fault, exitCode>>
          ELSE SetupExit("env_file")
    /\ SetupFrame
    /\ UNCHANGED <<missing, dirs, dbExists, cur, calls, clients, dbOpen, returns>>

\* Lines 153-163: without a virtual environment the user is asked.
SetupCheckVenv ==
    /\ prog = "setup" /\ pc = "check_venv"
    /\ \E venvActive \in BOOLEAN, response \in {"y", "n"} :
          IF venvActive \/ response = "y"
          THEN pc' = "install_requirements" /\ UNCHANGED <<fault, exitCode>>
          ELSE SetupExit("venv_declined")
    /\ SetupFrame
    /\ UNCHANGED <<missing, dirs, dbExists, cur, calls, clients, dbOpen, returns>>

\* Lines 165-172: pip install; a success may make missing packages importable.
SetupInstallRequirements ==
    /\ prog = "setup" /\ pc = "install_requirements"
    /\ \E pipOk \in BOOLEAN :
          IF pipOk
          THEN /\ missing' \in SUBSET missing
               /\ pc' = "create_dirs"
               /\ UNCHANGED <<fault, exitCode>>
          ELSE SetupExit("pip_install") /\ UNCHANGED missing
    /\ SetupFrame
    /\ UNCHANGED <<dirs, dbExists, cur, calls, clients, dbOpen, returns>>

\* Lines 174-179: mkdir(exist_ok=True) for each directory, unguarded.
SetupCreateDirs ==
    /\ prog = "setup" /\ pc = "create_dirs"
    /\ \E mkdirOk \in BOOLEAN :
          IF mkdirOk
          THEN /\ dirs' = required_dirs
               /\ calls' = Append(calls, Call("fs", "mkdir", "ok"))
               /\ pc' = "create_database"
               /\ UNCHANGED <<fault, exitCode>>
          ELSE Crash("mkdir") /\ UNCHANGED <<dirs, calls>>
    /\ SetupFrame
    /\ UNCHANGED <<missing, dbExists, cur, clients, dbOpen, returns>>

\* create_database returns r (lines 84-92); main goes on either way (182-186).
CreateDatabaseReturn(r) ==
    /\ returns' = [returns EXCEPT !.create_database = <<r>>]
    /\ pc' = "test_connections"

\* Lines 22-34: the URL is split outside the try; a URL without "@" or "/"
\* raises IndexError out of create_database.
CreateDatabaseParse ==
    /\ prog = "setup" /\ pc = "create_database"
    /\ \E wellFormed \in BOOLEAN :
          IF wellFormed
          THEN pc' = "cdb_connect_admin" /\ UNCHANGED <<fault, exitCode>>
          ELSE Crash("database_url")
    /\ SetupFrame
    /\ UNCHANGED <<missing, dirs, dbExists, cur, calls, clients, dbOpen, returns>>

\* Lines 37-45: administrative connection, autocommit.
CreateDatabaseConnectAdmin ==
    /\ prog = "setup" /\ pc = "cdb_connect_admin"
    /\ \E out \in Outcomes :
          /\ calls' = Append(calls, Call("db", "connect_admin", out))
          /\ IF out = "ok"
             THEN /\ dbOpen' = dbOpen + 1
                  /\ pc' = "cdb_catalog"
                  /\ UNCHANGED returns
             ELSE CreateDatabaseReturn(FALSE) /\ UNCHANGED dbOpen
    /\ SetupFrame
    /\ UNCHANGED <<missing, dirs, dbExists, cur, clients, fault, exitCode>>

\* The catalog query's answer ignored: CREATE DATABASE always issued.
CreateDatabaseCatalog_AlwaysCreate ==
    /\ prog = "setup" /\ pc = "cdb_catalog"
    /\ \E out \in Outcomes :
          /\ calls' = Append(calls, Call("db", "catalog_query", out))
          /\ IF out = "ok"
             THEN pc' = "cdb_create" /\ UNCHANGED returns
             ELSE CreateDatabaseReturn(FALSE)
    /\ SetupFrame
    /\ UNCHANGED <<missing, dirs, dbExists, cur, clients, dbOpen, fault, exitCode>>

\* Lines 47-51: SELECT 1 FROM pg_database WHERE datname = ...
CreateDatabaseCatalog ==
    /\ prog = "setup" /\ pc = "cdb_catalog"
    /\ \E out \in Outcomes :
          /\ calls' = Append(calls, Call("db", "catalog_query", out))
          /\ IF out = "ok"
             THEN /\ pc' = IF dbExists THEN "cdb_close_admin" ELSE "cdb_create"
                  /\ UNCHANGED returns
             ELSE CreateDatabaseReturn(FALSE)
    /\ SetupFrame
    /\ UNCHANGED <<missing, dirs, dbExists, cur, clients, dbOpen, fault, exitCode>>

\* Lines 51-53: CREATE DATABASE.
CreateDatabaseCreate ==
    /\ prog = "setup" /\ pc = "cdb_create"
    /\ \E out \in Outcomes :
          /\ calls' = Append(calls, Call("db", "create_database", out))
          /\ IF out = "ok"
             THEN /\ dbExists' = TRUE
                  /\ pc' = "cdb_close_admin"
                  /\ UNCHANGED returns
             ELSE CreateDatabaseReturn(FALSE) /\ UNCHANGED dbExists
    /\ SetupFrame
    /\ UNCHANGED <<missing, dirs, cur, clients, dbOpen, fault, exitCode>>

\* The administrative connection left open when the target one is opened.
CreateDatabaseCloseAdmin_Skipped ==
    /\ prog = "setup" /\ pc = "cdb_close_admin"
    /\ pc' = "cdb_connect_target"
    /\ SetupFrame
    /\ UNCHANGED <<missing, dirs, dbExists, cur, calls, clients, dbOpen, fault,
                   exitCode, returns>>

\* Lines 57-58.
CreateDatabaseCloseAdmin ==
    /\ prog = "setup" /\ pc = "cdb_close_admin"
    /\ calls' = Append(calls, Call("db", "close_admin", "ok"))
    /\ dbOpen' = dbOpen - 1
    /\ pc' = "cdb_connect_target"
    /\ SetupFrame
    /\ UNCHANGED <<missing, dirs, dbExists, cur, clients, fault, exitCode, returns>>

\* The second connect outside the try of lines 36-90.
CreateDatabaseConnectTarget_Uncaught ==
    /\ prog = "setup" /\ pc = "cdb_connect_target"
    /\ \E out \in Outcomes :
          /\ calls' = Append(calls, Call("db", "connect_target", out))
          /\ IF out = "ok"
             THEN /\ dbOpen' = dbOpen + 1
                  /\ pc' = "cdb_schema"
                  /\ UNCHANGED <<fault, exitCode>>
             ELSE Crash("connect_target") /\ UNCHANGED dbOpen
    /\ SetupFrame
    /\ UNCHANGED <<missing, dirs, dbExists, cur, clients, returns>>

\* Lines 60-68: connection to the target database.
CreateDatabaseConnectTarget ==
    /\ prog = "setup" /\ pc = "cdb_connect_target"
    /\ \E out \in Outcomes :
          /\ calls' = Append(calls, Call("db", "connect_target", out))
          /\ IF out = "ok"
             THEN /\ dbOpen' = dbOpen + 1
                  /\ pc' = "cdb_schema"
                  /\ UNCHANGED returns
             ELSE CreateDatabaseReturn(FALSE) /\ UNCHANGED dbOpen
    /\ SetupFrame
    /\ UNCHANGED <<missing, dirs, dbExists, cur, clients, fault, exitCode>>

\* Lines 70-79: run schema.sql and commit when the file exists.
CreateDatabaseSchema ==
    /\ prog = "setup" /\ pc = "cdb_schema"
    /\ \E schemaFile \in BOOLEAN, out \in Outcomes :
          IF schemaFile
          THEN /\ calls' = Append(calls, Call("db", "execute_schema", out))
               /\ IF out = "ok"
                  THEN pc' = "cdb_close" /\ UNCHANGED returns
                  ELSE CreateDatabaseReturn(FALSE)
          ELSE pc' = "cdb_close" /\ UNCHANGED <<calls, returns>>
    /\ SetupFrame
    /\ UNCHANGED <<missing, dirs, dbExists, cur, clients, dbOpen, fault, exitCode>>

\* Lines 81-82 and 92.
CreateDatabaseClose ==
    /\ prog = "setup" /\ pc = "cdb_close"
    /\ calls' = Append(calls, Call("db", "close_target", "ok"))
    /\ dbOpen' = dbOpen - 1
    /\ CreateDatabaseReturn(TRUE)
    /\ SetupFrame
    /\ UNCHANGED <<missing, dirs, dbExists, cur, clients, fault, exitCode>>

\* test_connections returns r (lines 124-131); main ignores it (line 186).
TestConnectionsReturn(r) ==
    /\ returns' = [returns EXCEPT !.test_connections = <<r>>]
    /\ pc' = "setup_complete"
    /\ cur' = "none"

\* Lines 104 and 115.
ShouldTestConnection(e, ex) ==
    ex \in e.active_exchanges /\ ~Empty(api_key(e, ex))

\* Lines 99-101: import ccxt and config inside the try.
TestConnectionsStart ==
    /\ prog = "setup" /\ pc = "test_connections"
    /\ IF "ccxt" \in missing \/ ~ConfigLoads(env)
       THEN TestConnectionsReturn(FALSE)
       ELSE pc' = "tc_gate" /\ cur' = "coinbase" /\ UNCHANGED returns
    /\ SetupFrame
    /\ UNCHANGED <<missing, dirs, dbExists, calls, clients, dbOpen, fault, exitCode>>

TestConnectionsLeaveBlock ==
    IF NextExchange(cur) = "none"
    THEN TestConnectionsReturn(TRUE)
    ELSE pc' = "tc_gate" /\ cur' = NextExchange(cur) /\ UNCHANGED returns

\* Lines 104-106 / 115-117: skip the exchange or construct its client.
TestConnectionsGate ==
    /\ prog = "setup" /\ pc = "tc_gate"
    /\ IF ShouldTestConnection(env, cur)
       THEN \E out \in Outcomes :
               /\ calls' = Append(calls, Call(cur, "construct", out))
               /\ rateLimit' = [rateLimit EXCEPT
                                  ![cur] = <<get_config_rateLimit(cur)>>]
               /\ IF out = "ok"
                  THEN /\ clients' = clients \cup {cur}
                       /\ pc' = "tc_balance"
                       /\ UNCHANGED <<cur, returns>>
                  ELSE TestConnectionsReturn(FALSE) /\ UNCHANGED clients
       ELSE TestConnectionsLeaveBlock /\ UNCHANGED <<calls, clients, rateLimit>>
    /\ UNCHANGED <<prog, history, env, results, exResults, exFault, errors,
                   stdout, verdict>>
    /\ UNCHANGED <<missing, dirs, dbExists, dbOpen, fault, exitCode>>

\* Lines 107-112 / 118-122: fetch_balance whatever the trading mode; its
\* exception is printed and swallowed; the client is never closed.
TestConnectionsBalance ==
    /\ prog = "setup" /\ pc = "tc_balance"
    /\ \E out \in RequestOutcomes :
          calls' = Append(calls, Call(cur, "fetch_balance", out))
    /\ TestConnectionsLeaveBlock
    /\ SetupFrame
    /\ UNCHANGED <<missing, dirs, dbExists, clients, dbOpen, fault, exitCode>>

\* Lines 188-194 and 197-198: "Setup complete!"; the interpreter ends normally.
SetupComplete ==
    /\ prog = "setup" /\ pc = "setup_complete"
    /\ pc' = "done"
    /\ exitCode' = <<0>>
    /\ SetupFrame
    /\ UNCHANGED <<missing, dirs, dbExists, cur, calls, clients, dbOpen, fault,
                   returns>>

----------------------------------------------------------------------------
(* simple_test.py *)

\* test_basic_connectivity.urls, lines 20-24, in order.
urls == <<"Google", "Coinbase", "Kraken">>

NextUrl(name) ==
    IF name = "Google" THEN "Coinbase"
    ELSE IF name = "Coinbase" THEN "Kraken" ELSE "none"

SimpleFrame ==
    UNCHANGED <<prog, history, rateLimit, returns, env, missing, dirs,
                dbExists, results, exResults,
                exFault, dbOpen, errors, verdict, fault>>

\* test_env_file, lines 64-84: prints only; every error is caught.
SimpleTestEnvFile ==
    /\ prog = "simple_test" /\ pc = "start"
    /\ pc' = "test_config_parsing"
    /\ SimpleFrame
    /\ UNCHANGED <<cur, calls, clients, stdout, exitCode>>

\* test_config_parsing, lines 35-61: a failing config import is printed.
SimpleTestConfigParsing ==
    /\ prog = "simple_test" /\ pc = "test_config_parsing"
    /\ stdout' = IF ConfigLoads(env) THEN Append(stdout, <<"ok", "Config">>)
                 ELSE Append(stdout, <<"fail", "Config", "error:", "error">>)
    /\ pc' = "session_open"
    /\ SimpleFrame
    /\ UNCHANGED <<cur, calls, clients, exitCode>>

\* Line 26: async with aiohttp.ClientSession() as session.
SimpleTestSessionOpen ==
    /\ prog = "simple_test" /\ pc = "session_open"
    /\ calls' = Append(calls, Call("session", "construct", "ok"))
    /\ clients' = clients \cup {"session"}
    /\ cur' = urls[1]
    /\ pc' = "get_url"
    /\ SimpleFrame
    /\ UNCHANGED <<stdout, exitCode>>

\* Lines 27-32: session.get(url, timeout=5); any exception, the timeout
\* included, is printed and the loop goes on.
SimpleTestGet ==
    /\ prog = "simple_test" /\ pc = "get_url"
    /\ \E out \in RequestOutcomes :
          /\ calls' = Append(calls, Call(cur, "get", out))
          /\ stdout' = Append(stdout,
                 IF out = "ok" THEN <<"ok", cur>>
                 ELSE <<"fail", cur, "error:", out>>)
    /\ IF NextUrl(cur) = "none"
       THEN pc' = "session_close" /\ cur' = "none"
       ELSE pc' = "get_url" /\ cur' = NextUrl(cur)
    /\ SimpleFrame
    /\ UNCHANGED <<clients, exitCode>>

\* Line 26 (leaving the async with) and lines 97-102.
SimpleTestSessionClose ==
    /\ prog = "simple_test" /\ pc = "session_close"
    /\ calls' = Append(calls, Call("session", "close", "ok"))
    /\ clients' = clients \ {"session"}
    /\ pc' = "done"
    /\ exitCode' = <<0>>
    /\ SimpleFrame
    /\ UNCHANGED <<cur, stdout>>

----------------------------------------------------------------------------
Next ==
    \/ ConfigModuleLoad
    \/ ConfigMainValidate
    \/ TestSetupModuleLoad
    \/ TestImports
    \/ TestEnvironment
    \/ TestDirectories
    \/ TestDatabaseConnect
    \/ TestDatabaseVersion
    \/ TestDatabaseTables
    \/ TestDatabaseClose
    \/ ExchangeStageStart
    \/ ProbeGate
    \/ ProbeTicker
    \/ ProbeBalance
    \/ ProbeClose
    \/ ExchangeStageReturn
    \/ MainSummary
    \/ TestSetupExit
    \/ SetupModuleLoad
    \/ SetupCheckPython
    \/ SetupCheckEnvFile
    \/ SetupCheckVenv
    \/ SetupInstallRequirements
    \/ SetupCreateDirs
    \/ CreateDatabaseParse
    \/ CreateDatabaseConnectAdmin
    \/ CreateDatabaseCatalog
    \/ CreateDatabaseCreate
    \/ CreateDatabaseCloseAdmin
    \/ CreateDatabaseConnectTarget
    \/ CreateDatabaseSchema
    \/ CreateDatabaseClose
    \/ TestConnectionsStart
    \/ TestConnectionsGate
    \/ TestConnectionsBalance
    \/ SetupComplete
    \/ SimpleTestEnvFile
    \/ SimpleTestConfigParsing
    \/ SimpleTestSessionOpen
    \/ SimpleTestGet
    \/ SimpleTestSessionClose

Spec == Init /\ [][Next]_vars

\* setup.py run again after it ended (line 160: "Then run this setup
\* again."; lines 197-198): a new process against the same environment,
\* packages, directories and database server.
MaxRuns == 2

SetupRerun ==
    /\ prog = "setup" /\ Terminated
    /\ Len(history) + 1 < MaxRuns
    /\ history' = Append(history, returns.create_database)
    /\ pc' = "start"
    /\ cur' = "none"
    /\ calls' = <<>>
    /\ clients' = {}
    /\ dbOpen' = 0
    /\ fault' = "none"
    /\ exitCode' = <<>>
    /\ returns' = [create_database |-> <<>>, test_connections |-> <<>>]
    /\ rateLimit' = [ex \in Exchanges |-> <<>>]
    /\ UNCHANGED <<prog, env, missing, dirs, dbExists, results, exResults,
                   exFault, errors, stdout, verdict>>

\* setup.py branches on neither ENVIRONMENT nor the API secrets: they are
\* left at one value here.
InitSetup ==
    /\ Init
    /\ prog = "setup"
    /\ env.environment = "development"
    /\ env.coinbase_api_secret = "k" /\ env.kraken_private_key = "k"

SetupNext ==
    \/ SetupModuleLoad
    \/ SetupCheckPython
    \/ SetupCheckEnvFile
    \/ SetupCheckVenv
    \/ SetupInstallRequirements
    \/ SetupCreateDirs
    \/ CreateDatabaseParse
    \/ CreateDatabaseConnectAdmin
    \/ CreateDatabaseCatalog
    \/ CreateDatabaseCreate
    \/ CreateDatabaseCloseAdmin
    \/ CreateDatabaseConnectTarget
    \/ CreateDatabaseSchema
    \/ CreateDatabaseClose
    \/ TestConnectionsStart
    \/ TestConnectionsGate
    \/ TestConnectionsBalance
    \/ SetupComplete
    \/ SetupRerun

RerunSpec == InitSetup /\ [][SetupNext]_vars

\* The two scripts that probe remote services, on their own.
InitProbe == Init /\ prog \in {"test_setup", "simple_test"}

ProbeNext ==
    \/ TestSetupModuleLoad
    \/ TestImports
    \/ TestEnvironment
    \/ TestDirectories
    \/ TestDatabaseConnect
    \/ TestDatabaseVersion
    \/ TestDatabaseTables
    \/ TestDatabaseClose
    \/ ExchangeStageStart
    \/ ProbeGate
    \/ ProbeTicker
    \/ ProbeBalance
    \/ ProbeClose
    \/ ExchangeStageReturn
    \/ MainSummary
    \/ TestSetupExit
    \/ SimpleTestEnvFile
    \/ SimpleTestConfigParsing
    \/ SimpleTestSessionOpen
    \/ SimpleTestGet
    \/ SimpleTestSessionClose

\* asyncio.run (test_setup.py line 275, simple_test.py line 102) drives the one
\* coroutine until it returns: a step that can be taken is taken, and every
\* request returns or raises within the client's timeout.
FairSpec == InitProbe /\ [][ProbeNext]_vars /\ WF_vars(ProbeNext)

----------------------------------------------------------------------------
(* Properties *)

Range(f) == {f[i] : i \in DOMAIN f}

\* The five stages in the order the specification fixes.
StageNames ==
    <<"Package Imports", "Environment Config", "Directories", "Database",
      "Exchange APIs">>

\* The stage a position of test_setup.main belongs to (6: past all stages).
StageOf(p) ==
    CASE p = "test_imports" -> 1
      [] p = "test_environment" -> 2
      [] p = "test_directories" -> 3
      [] p \in {"test_database", "db_version", "db_tables", "db_close"} -> 4
      [] p \in {"test_exchange_connections", "probe_gate", "probe_ticker",
                "probe_balance", "probe_close", "exchanges_return"} -> 5
      [] p \in {"summary", "main_returned", "done"} -> 6
      [] OTHER -> 0

\* C1: in every run of test_setup.main the stage results are recorded in the
\* order Imports, Environment/Config, Directories, Database, Exchanges; a
\* stage runs only once exactly the results of the stages before it are
\* recorded, and the summary is computed only after all five, the Exchanges
\* result being the last.
C1_StageOrder ==
    prog = "test_setup" =>
        /\ Len(results) <= 5
        /\ \A i \in DOMAIN results : results[i].name = StageNames[i]
        /\ StageOf(pc) > 0 => Len(results) = StageOf(pc) - 1
        /\ verdict # <<>> => Len(results) = 5
        /\ (\E i \in DOMAIN calls : calls[i].ex = "db") => Len(results) >= 3
        /\ (\E i \in DOMAIN calls : calls[i].ex \in Exchanges)
              => Len(results) >= 4

C1_Witness ==
    /\ prog = "test_setup" /\ pc = "done"
    /\ Len(results) = 5
    /\ \E i \in DOMAIN calls : calls[i].ex = "db"
    /\ \E i \in DOMAIN calls : calls[i].op = "fetch_ticker"

\* C2 (as claimed): whatever stages fail or fault, once main has started all
\* five stages run and the report holds exactly five results.
C2_AllFiveStagesAlwaysReported ==
    (prog = "test_setup" /\ Terminated /\ fault # "module_load")
        => Len(results) = 5

\* Exchanges for which the public endpoint was called.
Probed == {ex \in Exchanges : \E c \in Range(calls) : c.ex = ex /\ c.op = "fetch_ticker"}

\* C3 (amended): the verdict is true iff every recorded stage result is true;
\* an exchange skipped for an empty key has no entry among the probe results;
\* and the Exchanges stage passes exactly when the stage hit no error outside
\* a probe's own try block and every probed exchange passed (also when none
\* was probed).
C3_VerdictIffAllPassed ==
    (prog = "test_setup" /\ verdict # <<>>) =>
        /\ verdict[1] = (\A i \in DOMAIN results : results[i].passed)
        /\ Len(exResults) = Cardinality(Probed)
        /\ \A ex \in Exchanges : Empty(api_key(env, ex)) => ex \notin Probed
        /\ results[5].passed
              = (~exFault /\ \A j \in DOMAIN exResults : exResults[j])

C3_Witness ==
    /\ prog = "test_setup" /\ pc = "done"
    /\ verdict = <<TRUE>>
    /\ env.active_exchanges = Exchanges
    /\ Empty(api_key(env, "coinbase"))
    /\ Probed = {"kraken"}

\* C3 (as claimed): the Exchanges stage passes exactly when every exchange
\* that was actually probed passed, also when none was probed.
C3_ExchangesPassIffProbedPassed ==
    (prog = "test_setup" /\ verdict # <<>>) =>
        /\ verdict[1] = (\A i \in DOMAIN results : results[i].passed)
        /\ results[5].passed = (\A j \in DOMAIN exResults : exResults[j])

\* C4 (as claimed): the entry point exits non-zero exactly when the
\* aggregated report is failed, and zero exactly when it passed.
C4_ExitCodeReflectsVerdict ==
    /\ (prog = "test_setup" /\ pc = "done")
          => ((exitCode # <<0>>) <=> (verdict = <<FALSE>>))
    /\ (prog = "setup" /\ pc = "done")
          => ((exitCode # <<0>>) <=> (<<FALSE>> \in {returns.create_database,
                                                    returns.test_connections}))

\* Active exchanges with an empty required credential (key or secret).
MissingCredential(e) ==
    {ex \in e.active_exchanges \cap Exchanges :
        Empty(api_key(e, ex)) \/ Empty(api_secret(e, ex))}

PipelinePastDirectories ==
    pc \in {"db_version", "db_tables", "db_close", "test_exchange_connections",
            "probe_gate", "probe_ticker", "probe_balance", "probe_close",
            "exchanges_return", "summary", "main_returned", "done"}

\* Scenario A: TRADING_MODE=live, ACTIVE_EXCHANGES=coinbase, no Coinbase
\* credentials set.
ScenarioA ==
    /\ env.trading_mode = "live"
    /\ env.active_exchanges = {"coinbase"}
    /\ Empty(env.coinbase_api_key) /\ Empty(env.coinbase_api_secret)

\* C5 (as claimed): in scenario A, whose configuration carries the blocking
\* error naming Coinbase, the pipeline aborts before the Database and
\* Exchanges stages: no database connection is attempted, no probe starts,
\* and the run never gets past the Directories stage.
C5_BlockingErrorAbortsBeforeDatabase ==
    (prog = "test_setup" /\ ScenarioA) =>
        /\ validate_config_raises(validate_config_errors(env))
        /\ \A i \in DOMAIN calls : calls[i].ex \notin {"db"} \cup Exchanges
        /\ ~PipelinePastDirectories

\* How an error message names an exchange.
ExchangeLabel(ex) == IF ex = "coinbase" THEN "Coinbase" ELSE "Kraken"

CredentialError(ex) ==
    <<ExchangeLabel(ex), "API", "credentials", "are", "required", "but",
      "not", "set">>

\* config.py's main has run validate_config.
ValidateRan == prog = "config" /\ Terminated /\ fault # "TradingConfig"

\* C6: the exchanges named by validate_config's blocking errors are exactly
\* the active exchanges with an empty key or secret, each in one error
\* "<Exchange> API credentials are required but not set".
C6_BlockingErrorsNameExactlyMissing ==
    ValidateRan =>
        /\ {ex \in Exchanges :
              \E i \in DOMAIN errors :
                  Contains(errors[i], ExchangeLabel(ex))} = MissingCredential(env)
        /\ \A ex \in MissingCredential(env) :
              Cardinality({i \in DOMAIN errors : errors[i] = CredentialError(ex)}) = 1

C6_Witness ==
    /\ ValidateRan
    /\ env.active_exchanges = Exchanges
    /\ MissingCredential(env) = {"kraken"}
    /\ ~Empty(env.kraken_api_key)
    /\ errors = <<KrakenError>>

\* C7: live + development yields a warning that is printed and does not
\* abort; validate_config aborts iff some active exchange lacks a required
\* credential, with or without the warning.
C7_WarningDoesNotBlock ==
    ValidateRan =>
        /\ (fault = "validate_config") <=> (MissingCredential(env) # {})
        /\ (pc = "done" /\ exitCode = <<0>>) <=> (MissingCredential(env) = {})
        /\ (env.trading_mode = "live" /\ env.environment = "development")
              <=> (LiveDevWarning \in Range(stdout))

C7_Witness ==
    /\ ValidateRan
    /\ env.trading_mode = "live" /\ env.environment = "development"
    /\ env.active_exchanges = Exchanges
    /\ MissingCredential(env) = {}
    /\ stdout = <<LiveDevWarning>>
    /\ pc = "done" /\ exitCode = <<0>>

\* C8 (as claimed): in paper mode no connectivity check of the program calls
\* the private endpoint (fetch_balance) of any exchange.
C8_NoPrivateCallInPaperMode ==
    env.trading_mode = "paper" =>
        \A i \in DOMAIN calls : calls[i].op # "fetch_balance"

\* C9 (as claimed): a private-endpoint call for an exchange is always
\* preceded by a successful public-endpoint call for that exchange.
C9_PublicBeforePrivate ==
    \A i \in DOMAIN calls :
        calls[i].op = "fetch_balance" =>
            \E j \in 1..(i - 1) :
                /\ calls[j].ex = calls[i].ex
                /\ calls[j].op = "fetch_ticker"
                /\ calls[j].out = "ok"

\* C10 (as claimed): a client is constructed and calls are made for an
\* exchange only when both its key and its secret are configured; an
\* exchange with an empty credential is skipped.
C10_ProbedOnlyWithKeyAndSecret ==
    \A i \in DOMAIN calls :
        calls[i].ex \in Exchanges =>
            /\ ~Empty(api_key(env, calls[i].ex))
            /\ ~Empty(api_secret(env, calls[i].ex))

\* Constructed clients on which close() was never called.
Unclosed ==
    {i \in DOMAIN calls :
        /\ calls[i].op = "construct" /\ calls[i].out = "ok"
        /\ ~\E j \in DOMAIN calls :
              j > i /\ calls[j].ex = calls[i].ex /\ calls[j].op = "close"}

\* C11 (as claimed): every client a connection test constructs is closed on
\* every exit path, before the test returns; none is left when the run ends.
C11_ClientClosedOnEveryPath ==
    (\/ pc = "done"
     \/ prog = "test_setup" /\ Len(results) = 5
     \/ prog = "setup" /\ returns.test_connections # <<>>)
        => Unclosed = {}

\* The requests that ended by the timeout expiring.
TimedOutCalls == {i \in DOMAIN calls : calls[i].out = "timeout"}

\* The name a script prints for the remote service of a call.
PrintedName(ex) ==
    IF ex = "coinbase" THEN "Coinbase" ELSE IF ex = "kraken" THEN "Kraken" ELSE ex

\* A line that reports a timeout for the service `ex`.
TimeoutReported(ex) ==
    \E k \in DOMAIN stdout :
        /\ PrintedName(ex) \in Range(stdout[k])
        /\ stdout[k][Len(stdout[k])] = "timeout"

\* What holds as soon as a request has timed out: no uncaught exception, the
\* timeout is reported, the probe's result is a failure, and once the stage
\* (or the session block) is left the client has been closed.
TimeoutHandled ==
    \A i \in TimedOutCalls :
        /\ fault = "none"
        /\ TimeoutReported(calls[i].ex)
        /\ prog = "test_setup" => FALSE \in Range(exResults)
        /\ (prog = "test_setup" /\ Len(results) = 5) =>
              /\ ~results[5].passed
              /\ Unclosed = {}
        /\ pc = "done" => Unclosed = {}

\* The run is over, normally, with the timed-out service reported as failed.
TimeoutRunCompleted ==
    /\ pc = "done"
    /\ exitCode = <<0>>
    /\ Unclosed = {}
    /\ \A i \in TimedOutCalls : TimeoutReported(calls[i].ex)
    /\ prog = "test_setup" =>
          /\ Len(results) = 5
          /\ ~results[5].passed
          /\ verdict = <<FALSE>>

CallsOf(ex) == {i \in DOMAIN calls : calls[i].ex = ex}

\* The probe of ex is in flight: its client is constructed and close has not
\* been called on it yet.
InFlight(ex) ==
    \E i \in CallsOf(ex) :
        /\ calls[i].op = "construct" /\ calls[i].out = "ok"
        /\ ~\E j \in CallsOf(ex) : j > i /\ calls[j].op = "close"

\* C13 (as claimed): the stage dispatches one task per exchange before it
\* awaits any, so with two exchanges to probe both probes are in flight
\* together: the second has started by the time the first finishes.
C13_SecondStartsBeforeFirstFinishes ==
    (/\ prog = "test_setup"
     /\ ShouldProbe(env, "kraken")
     /\ \A i \in DOMAIN calls : calls[i].out = "ok"
     /\ \E i \in CallsOf("coinbase") : calls[i].op = "close")
        => CallsOf("kraken") # {}

\* What the stage does instead: its probes run one after another, never two
\* in flight at once, and every call on the second exchange comes after close
\* was called on the first exchange's client.
ProbesRunOneAfterAnother ==
    prog = "test_setup" =>
        /\ ~(InFlight("coinbase") /\ InFlight("kraken"))
        /\ \A i \in CallsOf("coinbase"), j \in CallsOf("kraken") : i < j
        /\ (CallsOf("kraken") # {} /\ CallsOf("coinbase") # {}) =>
              ~InFlight("coinbase")

\* Scenario C: the database refuses the connection; both exchanges are
\* active with an API key, the SDK is importable, and every call made on an
\* exchange client so far succeeded.
ScenarioC ==
    /\ prog = "test_setup"
    /\ \E i \in CallsOf("db") : calls[i].op = "connect" /\ calls[i].out = "error"
    /\ "ccxt" \notin missing
    /\ \A ex \in Exchanges : ShouldProbe(env, ex)
    /\ \A ex \in Exchanges : \A i \in CallsOf(ex) : calls[i].out = "ok"

\* C14: in scenario C the Database result is recorded as failed, the run goes
\* on, the Exchanges stage records a passed result for each of the two
\* exchanges and passes, and the verdict is false.
C14_DatabaseFailureFailsVerdictOnly ==
    ScenarioC =>
        /\ Len(results) >= 4
        /\ results[4] = [name |-> "Database", passed |-> FALSE]
        /\ fault = "none"
        /\ Len(results) = 5 =>
              /\ exResults = <<TRUE, TRUE>>
              /\ results[5] = [name |-> "Exchange APIs", passed |-> TRUE]
        /\ verdict # <<>> => verdict = <<FALSE>> /\ Len(results) = 5
        /\ pc = "done" => verdict = <<FALSE>>

C14_Witness ==
    /\ ScenarioC
    /\ pc = "done"
    /\ exResults = <<TRUE, TRUE>>
    /\ results[5].passed
    /\ ~results[4].passed
    /\ verdict = <<FALSE>>

\* An earlier run's create_database returned True against this server.
Provisioned == \E k \in DOMAIN history : history[k] = <<TRUE>>

\* Every database operation attempted so far in this run succeeded.
DbCallsOk == \A i \in CallsOf("db") : calls[i].out = "ok"

\* C15: create_database invoked again after an invocation that returned True
\* finds the database in the catalog, issues no CREATE DATABASE, and returns
\* True again unless a connection or statement fails.
C15_CreateDatabaseIdempotent ==
    Provisioned =>
        /\ dbExists
        /\ pc # "cdb_create"
        /\ \A i \in CallsOf("db") : calls[i].op # "create_database"
        /\ returns.create_database # <<>> =>
              (returns.create_database = <<TRUE>> <=> DbCallsOk)

C15_Witness ==
    /\ Provisioned
    /\ returns.create_database = <<TRUE>>
    /\ \E i \in CallsOf("db") : calls[i].op = "catalog_query"
    /\ pc = "done"

\* The bootstrap statement that failed, if any.
FailedDbCalls == {i \in CallsOf("db") : calls[i].out = "error"}

\* C16: an error of the administrative connect, the catalog query, CREATE
\* DATABASE, the connect to the target database or the schema execution makes
\* create_database return False, never raise; create_database returns True
\* exactly when nothing failed, whether or not schema.sql was there to run.
C16_BootstrapErrorReturnsFalse ==
    prog = "setup" =>
        /\ FailedDbCalls # {} =>
              /\ returns.create_database = <<FALSE>>
              /\ pc # "crashed"
        /\ returns.create_database # <<>> =>
              (returns.create_database = <<TRUE>> <=> FailedDbCalls = {})

C16_Witness ==
    /\ prog = "setup" /\ pc = "done"
    /\ \E i \in FailedDbCalls : calls[i].op = "connect_target"
    /\ returns.create_database = <<FALSE>>

\* create_database returned True without schema.sql to run.
SchemaAbsentOk ==
    /\ prog = "setup" /\ pc = "done"
    /\ returns.create_database = <<TRUE>>
    /\ \A i \in CallsOf("db") : calls[i].op # "execute_schema"

\* floor(1000 / rps), at least 1: milliseconds per request.
MillisPerRequest(rps) ==
    IF 1000 \div rps >= 1 THEN 1000 \div rps ELSE 1

\* C17 (as claimed): the rate limit in the connection parameters handed to an
\* exchange client is floor(1000 / rate_limit_per_second) milliseconds, at
\* least 1: 100 ms for Coinbase's 10 requests per second, 166 ms for Kraken's 6.
C17_RateLimitIsMillisPerRequest ==
    \A ex \in Exchanges :
        rateLimit[ex] # <<>> =>
            rateLimit[ex] = <<MillisPerRequest(rate_limit_per_second(ex))>>

\* TRADING_MODE is not exactly "paper" or "live".
InvalidTradingMode == env.trading_mode \notin {"paper", "live"}

\* C18: with a trading_mode outside {paper, live} (the empty string and
\* casing variants included) TradingConfig() raises, so nothing ever works
\* with such a configuration: config.py ends on the exception before
\* validate_config, every stage that imports config fails, and no exchange
\* client is constructed.
C18_InvalidTradingModeFailsConstruction ==
    InvalidTradingMode =>
        /\ \A ex \in Exchanges : CallsOf(ex) = {} /\ rateLimit[ex] = <<>>
        /\ prog = "config" =>
              /\ pc \in {"start", "crashed"}
              /\ pc = "crashed" => fault = "TradingConfig"
              /\ errors = <<>> /\ stdout = <<>>
        /\ prog = "test_setup" =>
              /\ CallsOf("db") = {}
              /\ \A k \in DOMAIN results : k \in {2, 4, 5} => ~results[k].passed
              /\ verdict # <<>> => verdict = <<FALSE>>
        /\ prog = "setup" => returns.test_connections # <<TRUE>>
        /\ prog = "simple_test" => <<"ok", "Config">> \notin Range(stdout)

C18_Witness ==
    /\ env.trading_mode \in {"", "Live", "PAPER"}
    /\ \/ prog = "config" /\ pc = "crashed" /\ fault = "TradingConfig"
       \/ /\ prog = "test_setup" /\ pc = "done" /\ Len(results) = 5
          /\ results[3].passed /\ ~results[2].passed

\* Exchanges whose client was constructed in this run.
Started == {ex \in Exchanges :
               \E i \in CallsOf(ex) :
                   calls[i].op = "construct" /\ calls[i].out = "ok"}

\* The Exchanges stage has recorded its result.
ExchangesStageClosed == prog = "test_setup" /\ Len(results) = 5

\* C19: when the Exchanges stage result is recorded, and so when the summary
\* is computed, every probe that was started has recorded its pass/fail and
\* close has been called on its client: none is in flight.
C19_StageClosesAfterEveryProbe ==
    /\ ExchangesStageClosed =>
          /\ \A ex \in Exchanges : ~InFlight(ex)
          /\ Len(exResults) = Cardinality(Started)
          /\ pc \in {"summary", "main_returned", "done"}
    /\ (prog = "test_setup" /\ verdict # <<>>) => ExchangesStageClosed

C19_Witness ==
    /\ ExchangesStageClosed
    /\ Started = Exchanges
    /\ verdict # <<>>
    /\ \A ex \in Exchanges : \E i \in CallsOf(ex) : calls[i].op = "close"

\* C20 (as claimed): with two active exchanges that have an API key, a
\* failure in one exchange's probe (constructing the client, a call, closing
\* the client) fails that exchange only: when the Exchanges stage closes,
\* both exchanges have been probed and each has its own result.
C20_ProbeFailureIsolated ==
    (/\ ExchangesStageClosed
     /\ "ccxt" \notin missing
     /\ ConfigLoads(env)
     /\ \A ex \in Exchanges : ShouldProbe(env, ex))
        => /\ \A ex \in Exchanges : CallsOf(ex) # {}
           /\ Len(exResults) = Cardinality(Exchanges)

\* Position i of the log holds the database operation op.
DbOp(i, op) == calls[i].ex = "db" /\ calls[i].op = op

\* Order of the bootstrap statements in the log of one run of setup.py.
BootstrapOrder ==
    \A k \in DOMAIN calls :
        /\ DbOp(k, "create_database") =>
              /\ k > 1
              /\ DbOp(k - 1, "catalog_query") /\ calls[k - 1].out = "ok"
        /\ DbOp(k, "connect_target") =>
              /\ k > 1
              /\ DbOp(k - 1, "close_admin")
        /\ DbOp(k, "execute_schema") =>
              /\ k > 1
              /\ DbOp(k - 1, "connect_target") /\ calls[k - 1].out = "ok"
              /\ dbExists

\* The step just taken issued CREATE DATABASE.
IssuesCreate ==
    /\ Len(calls') = Len(calls) + 1
    /\ DbOp(Len(calls), "create_database")'

\* C21: in create_database, CREATE DATABASE is issued only right after a
\* catalog query that succeeded and found the database absent; the
\* administrative connection is closed before the target database is
\* connected to (no connection is open at that point); schema.sql is executed
\* only on the connection to the target database, which then exists.
C21_BootstrapStepOrder ==
    /\ [](prog = "setup" =>
            /\ BootstrapOrder
            /\ pc = "cdb_connect_target" => dbOpen = 0
            /\ pc = "cdb_schema" => dbOpen = 1 /\ dbExists)
    /\ [][(prog = "setup" /\ IssuesCreate) =>
            (pc = "cdb_create" /\ ~dbExists)]_vars
    /\ [][(prog = "setup" /\ pc' = "cdb_create") =>
            (pc = "cdb_catalog" /\ ~dbExists)]_vars

C21_Witness ==
    /\ prog = "setup" /\ pc = "done"
    /\ \E k \in DOMAIN calls : DbOp(k, "create_database") /\ calls[k].out = "ok"
    /\ \E k \in DOMAIN calls : DbOp(k, "execute_schema")
    /\ returns.create_database = <<TRUE>>

\* create_database (setup.py) or test_database (test_setup.py) has returned.
DatabaseOperationReturned ==
    \/ prog = "setup" /\ returns.create_database # <<>>
    \/ prog = "test_setup" /\ Len(results) >= 4

\* C22 (as claimed): whenever create_database or test_database returns, with
\* success or with a failure at any step, every database connection it
\* opened has been closed.
C22_DbConnectionsReleased ==
    DatabaseOperationReturned => dbOpen = 0

\* Positions of setup.main before its stateful steps.
GatePositions ==
    {"start", "check_python", "check_env_file", "check_venv",
     "install_requirements"}

\* The gate whose failure ended the run.
GateFaults == {"python_version", "env_file", "venv_declined", "pip_install"}

\* No directory was created, no database or exchange operation attempted.
NoStatefulStep ==
    calls = <<>> /\ dbOpen = 0 /\ clients = {} /\ returns.create_database = <<>>

\* The gating half of C23, which holds: the stateful steps come only after
\* the four gates, and a gate that fails exits with status 1 before them.
GatesGuardStatefulSteps ==
    prog = "setup" =>
        /\ pc \in GatePositions => NoStatefulStep
        /\ fault \in GateFaults =>
              NoStatefulStep /\ pc = "crashed" /\ exitCode = <<1>>
        /\ pc = "setup_complete" => returns.test_connections # <<>>
        /\ returns.test_connections # <<>> => returns.create_database # <<>>

\* C23 (as claimed): the stateful steps of setup.main are reached only past
\* its gates, a failing gate exits with status 1 before them, and once past
\* the gates (the directories are created) the run always ends at "Setup
\* complete" with the connection tests run after the bootstrap attempt,
\* whatever the database bootstrap or the connection tests did.
C23_GatedThenAlwaysCompletes ==
    /\ GatesGuardStatefulSteps
    /\ (prog = "setup" /\ Terminated /\ calls # <<>>) =>
          /\ pc = "done"
          /\ returns.create_database # <<>>
          /\ returns.test_connections # <<>>

====
